---------------------------- MODULE Spec2Model ----------------------------
(***************************************************************************)
(* State-machine model of the testdb diagnostic service (src/main.py): a   *)
(* FastAPI application whose handlers call a PostgreSQL engine (SQLAlchemy *)
(* pool) and a Redis client.  Handlers are "def" functions, so the         *)
(* framework runs them on worker threads: several may be in flight.        *)
(***************************************************************************)
EXTENDS Integers, Sequences, FiniteSets, TLC

(***************************************************************************)
(* Bounds of the model                                                     *)
(***************************************************************************)
\* largest value the SERIAL sequence of test_connection may hand out
MaxId == 11
\* largest value of that sequence at which a combined test may still start
MaxTestAllId == 3

(***************************************************************************)
(* Program constants                                                       *)
(***************************************************************************)
pool_size == 5
max_overflow == 10
ReadLimit == 10
WriteTtl == 300
TestAllTtl == 60
\* redis TTL replies for "no such key" and "key without expiry"
TtlMissing == -2

\* worker threads serving requests
Procs == {"w1", "w2", "w3"}

\* A database name is a sequence of atoms; DQ is the double-quote character,
\* every other atom is a run of characters without a double quote.
DQ == "\""
DbNames ==
    { <<"postgres">>, <<"openLLM">>, <<"test_newdb">>, <<DQ>>, <<DQ, DQ>> }
Messages == { "hello from testdb", "" }
Keys == { "test_key", "k1" }
Values == { "hello_redis", "v1" }
\* python's None in a JSON body (null)
Nil == "None"
\* how far the clock may move in one step (seconds)
Deltas == { 100, 299 }

VARIABLES
    pgUp,       \* the PostgreSQL server accepts connections
    redisUp,    \* the Redis server accepts connections
    dbs,        \* pg_database.datname: the databases of the cluster
    hasTable,   \* test_connection exists
    rows,       \* committed rows of test_connection, in insertion order
    nextId,     \* next value of the SERIAL sequence test_connection_id_seq
    leaked,     \* raw connections checked out of the pool and no longer
                \* referenced by a running handler (not yet finalized)
    store,      \* redis: key -> [live, value, ttl (seconds left)]
    pc,         \* per worker: where its handler stands
    loc,        \* per worker: the handler's local variables
    resp        \* per worker: the response of its latest request

vars == << pgUp, redisUp, dbs, hasTable, rows, nextId, leaked, store, pc, loc, resp >>
pgVars == << dbs, hasTable, rows, nextId, leaked >>


(***************************************************************************)
(* Exceptions and responses                                                *)
(***************************************************************************)
Exc(cls, msg) == [cls |-> cls, msg |-> msg]
NoExc == Exc("", "")
\* psycopg2 cannot reach the server (engine.connect / engine.raw_connection)
RefusedExc == Exc("OperationalError", "connection refused")
\* QueuePool: pool_size + max_overflow connections are checked out
PoolTimeoutExc == Exc("TimeoutError", "QueuePool limit reached")
\* the connection is lost while a statement runs; the driver reports it
\* either as OperationalError or as InterfaceError
ExecFaults ==
    { Exc("OperationalError", "server closed the connection unexpectedly"),
      Exc("InterfaceError", "connection already closed") }
\* exceptions that come from the environment (server down, connection lost,
\* pool exhausted) rather than from the request
EnvFaults == { RefusedExc, PoolTimeoutExc } \cup ExecFaults
NoTableExc == Exc("ProgrammingError", "relation test_connection does not exist")
RedisDownExc == Exc("ConnectionError", "redis connection refused")

\* a JSON 200 response of handler op; the fields a handler does not set keep
\* these values.  conns, sql and unreleased record what the request did: the
\* connections it acquired, the administrative statements it sent, and the
\* connections it had not given back to the pool when it returned.
Response(op) ==
    [ op |-> op, code |-> 200, body |-> "json", status |-> "",
      detail |-> <<>>, exc |-> NoExc, db_name |-> <<>>, id |-> 0,
      message |-> "", rows |-> <<>>, count |-> 0, tables |-> <<>>,
      key |-> "", value |-> Nil, ttl |-> 0, ping |-> FALSE,
      conns |-> 0, sql |-> <<>>, unreleased |-> 0, results |-> <<>> ]

\* raise HTTPException(status_code, detail) while handling exception e:
\* FastAPI answers status_code with the body {"detail": detail}
HTTPException(op, status_code, detail, e) ==
    [ Response(op) EXCEPT !.code = status_code, !.body = "detail",
                          !.detail = detail, !.exc = e ]

\* an exception that leaves the handler: the server answers 500 with the
\* plain text "Internal Server Error"
Unhandled(op, e) ==
    [ Response(op) EXCEPT !.code = 500, !.body = "text", !.exc = e ]

(***************************************************************************)
(* The connection pool                                                     *)
(***************************************************************************)
\* connections checked out of the engine's QueuePool right now
CheckedOut == leaked + Cardinality({ q \in Procs : pc[q] = "cdb_create" })
\* engine.connect() / engine.raw_connection(): the exception it raises
ConnectExc ==
    IF CheckedOut >= pool_size + max_overflow THEN PoolTimeoutExc
    ELSE IF ~pgUp THEN RefusedExc
    ELSE NoExc
\* the ways a single statement on a fresh connection can end
StmtOutcomes == IF ConnectExc # NoExc THEN { ConnectExc } ELSE { NoExc } \cup ExecFaults

(***************************************************************************)
(* GET /pg/connect                                                         *)
(***************************************************************************)
pg_connect(e) ==
    IF e = NoExc
    THEN [ Response("pg_connect") EXCEPT !.status = "connected" ]
    ELSE IF e.cls = "OperationalError"
    THEN HTTPException("pg_connect", 500, <<"PG connection failed: ", e.msg>>, e)
    ELSE Unhandled("pg_connect", e)

PgConnect(p) ==
    /\ pc[p] = "idle"
    /\ \E e \in StmtOutcomes :
        /\ resp' = [resp EXCEPT ![p] = pg_connect(e)]
        /\ pgUp' = (pgUp /\ e \notin ExecFaults)
    /\ UNCHANGED << redisUp, pgVars, store, pc, loc >>

(***************************************************************************)
(* POST /pg/create-table                                                   *)
(***************************************************************************)
pg_create_table(e) ==
    IF e = NoExc
    THEN [ Response("pg_create_table") EXCEPT
             !.status = "ok", !.message = "test_connection table created" ]
    ELSE HTTPException("pg_create_table", 500, <<e.msg>>, e)

\* variant: the table is dropped and created again
CreateTableAnew(t) == [ exists |-> TRUE, rows |-> <<>> ]
\* CREATE TABLE IF NOT EXISTS test_connection (...): the table after it
CreateTableIfNotExists(t) ==
    [ exists |-> TRUE, rows |-> IF t.exists THEN t.rows ELSE <<>> ]
Table == [ exists |-> hasTable, rows |-> rows ]

PgCreateTable(p) ==
    /\ pc[p] = "idle"
    /\ \E e \in StmtOutcomes :
        /\ resp' = [resp EXCEPT ![p] = pg_create_table(e)]
        /\ pgUp' = (pgUp /\ e \notin ExecFaults)
        /\ LET t == IF e = NoExc THEN CreateTableIfNotExists(Table) ELSE Table
           IN  hasTable' = t.exists /\ rows' = t.rows
    /\ UNCHANGED << redisUp, dbs, nextId, leaked, store, pc, loc >>

(***************************************************************************)
(* POST /pg/insert                                                         *)
(***************************************************************************)
pg_insert(e, row) ==
    IF e = NoExc
    THEN [ Response("pg_insert") EXCEPT
             !.status = "inserted", !.id = row.id, !.message = row.message ]
    ELSE HTTPException("pg_insert", 500, <<e.msg>>, e)

\* INSERT INTO test_connection (message) VALUES (:msg) RETURNING ...
InsertRow(message) == [ id |-> nextId, message |-> message ]

\* the statement's outcomes: the connection fails or is lost (nothing is
\* committed); the table is missing; the row is committed
PgInsert(p, message) ==
    /\ pc[p] = "idle"
    /\ nextId <= MaxId
    /\ \E e \in StmtOutcomes :
        LET ex == IF e = NoExc /\ ~hasTable THEN NoTableExc ELSE e
        IN  /\ resp' = [resp EXCEPT ![p] = pg_insert(ex, InsertRow(message))]
            /\ pgUp' = (pgUp /\ e \notin ExecFaults)
            /\ nextId' = IF ex = NoExc THEN nextId + 1 ELSE nextId
            /\ rows' = IF ex = NoExc THEN Append(rows, InsertRow(message)) ELSE rows
    /\ UNCHANGED << redisUp, dbs, hasTable, leaked, store, pc, loc >>

(***************************************************************************)
(* GET /pg/read                                                            *)
(***************************************************************************)
RECURSIVE OrderByIdDesc(_)
\* ORDER BY id DESC over a set of rows
OrderByIdDesc(S) ==
    IF S = {} THEN <<>>
    ELSE LET top == CHOOSE r \in S : \A o \in S : o.id <= r.id
         IN  <<top>> \o OrderByIdDesc(S \ {top})

Limit(s, n) == SubSeq(s, 1, IF Len(s) < n THEN Len(s) ELSE n)

\* variant: ORDER BY id ASC
SelectOldest(table) ==
    LET d == OrderByIdDesc({ table[i] : i \in 1..Len(table) })
    IN  Limit([ i \in 1..Len(d) |-> d[Len(d) + 1 - i] ], ReadLimit)
\* SELECT id, message, created_at FROM test_connection
\*   ORDER BY id DESC LIMIT 10
SelectRecent(table) ==
    Limit(OrderByIdDesc({ table[i] : i \in 1..Len(table) }), ReadLimit)

pg_read(e, result) ==
    IF e = NoExc
    THEN [ Response("pg_read") EXCEPT
             !.status = "ok", !.count = Len(result), !.rows = result ]
    ELSE HTTPException("pg_read", 500, <<e.msg>>, e)

PgRead(p) ==
    /\ pc[p] = "idle"
    /\ \E e \in StmtOutcomes :
        LET ex == IF e = NoExc /\ ~hasTable THEN NoTableExc ELSE e
        IN  /\ resp' = [resp EXCEPT ![p] = pg_read(ex, SelectRecent(rows))]
            /\ pgUp' = (pgUp /\ e \notin ExecFaults)
    /\ UNCHANGED << redisUp, pgVars, store, pc, loc >>

(***************************************************************************)
(* GET /pg/tables                                                          *)
(***************************************************************************)
pg_tables(e, names) ==
    IF e = NoExc
    THEN [ Response("pg_tables") EXCEPT !.status = "ok", !.tables = names ]
    ELSE HTTPException("pg_tables", 500, <<e.msg>>, e)

\* inspect(engine).get_table_names()
TableNames == IF hasTable THEN <<"test_connection">> ELSE <<>>

PgTables(p) ==
    /\ pc[p] = "idle"
    /\ \E e \in StmtOutcomes :
        /\ resp' = [resp EXCEPT ![p] = pg_tables(e, TableNames)]
        /\ pgUp' = (pgUp /\ e \notin ExecFaults)
    /\ UNCHANGED << redisUp, pgVars, store, pc, loc >>

(***************************************************************************)
(* The administrative statements: CREATE DATABASE "<db_name>" and          *)
(* DROP DATABASE IF EXISTS "<db_name>", built by string interpolation      *)
(***************************************************************************)
SyntaxExc == Exc("ProgrammingError", "syntax error")
DuplicateDbExc == Exc("ProgrammingError", "database already exists")

\* f'"{db_name}"': the name between two double quotes, nothing escaped
QuoteIdent(db_name) == <<DQ>> \o db_name \o <<DQ>>

RECURSIVE ScanQuoted(_, _, _)
\* PostgreSQL's lexer inside a quoted identifier, from position i: two double
\* quotes stand for one, a single one ends the identifier
ScanQuoted(s, i, acc) ==
    IF i > Len(s)
    THEN [ ok |-> FALSE, ident |-> <<>>, rest |-> <<>> ]
    ELSE IF s[i] = DQ
    THEN IF i < Len(s) /\ s[i + 1] = DQ
         THEN ScanQuoted(s, i + 2, Append(acc, DQ))
         ELSE [ ok |-> TRUE, ident |-> acc, rest |-> SubSeq(s, i + 1, Len(s)) ]
    ELSE ScanQuoted(s, i + 1, Append(acc, s[i]))

\* the database the server reads out of the quoted text: the identifier must
\* be terminated, non-empty, and followed by nothing
ParseDbIdent(quoted) ==
    LET r == ScanQuoted(quoted, 2, <<>>)
    IN  IF r.ok /\ r.rest = <<>> /\ r.ident # <<>>
        THEN [ ok |-> TRUE, ident |-> r.ident ]
        ELSE [ ok |-> FALSE, ident |-> <<>> ]

\* the ways a statement on an open connection can end, short of its own errors
OpenConnOutcomes == IF pgUp THEN { NoExc } \cup ExecFaults ELSE ExecFaults

\* raw connections the handler leaves checked out when it returns: close()
\* is only reached on the two return paths
RawConnLeftOpen(acquired, e) == IF acquired /\ e # NoExc THEN 1 ELSE 0

(***************************************************************************)
(* POST /pg/create-db                                                      *)
(***************************************************************************)
\* variant: an error of the CREATE statement is swallowed
pg_create_db_swallow(db_name, e, exists) ==
    IF e \in EnvFaults
    THEN HTTPException("pg_create_db", 500, <<e.msg>>, e)
    ELSE IF exists
    THEN [ Response("pg_create_db") EXCEPT !.status = "already_exists" ]
    ELSE [ Response("pg_create_db") EXCEPT !.status = "created" ]
pg_create_db(db_name, e, exists) ==
    IF e # NoExc
    THEN HTTPException("pg_create_db", 500, <<e.msg>>, e)
    ELSE IF exists
    THEN [ Response("pg_create_db") EXCEPT !.status = "already_exists" ]
    ELSE [ Response("pg_create_db") EXCEPT !.status = "created" ]

\* SELECT 1 FROM pg_database WHERE datname = %s  (a bound parameter)
DbExists(db_name) == db_name \in dbs

\* CREATE DATABASE <quoted>: the exception it raises
CreateDatabaseExc(quoted) ==
    LET q == ParseDbIdent(quoted)
    IN  IF ~q.ok THEN SyntaxExc
        ELSE IF q.ident \in dbs THEN DuplicateDbExc
        ELSE NoExc

\* lines 105-114: take a raw connection, look the name up, answer
\* already_exists or go on to the CREATE
CreateDbLookup(p, db_name) ==
    /\ pc[p] = "idle"
    /\ LET ce == ConnectExc
       IN  \E se \in (IF ce # NoExc THEN { ce } ELSE OpenConnOutcomes) :
            LET acquired == ce = NoExc
                exists   == DbExists(db_name)
                r == [ pg_create_db(db_name, se, exists) EXCEPT
                         !.db_name = db_name,
                         !.conns = IF acquired THEN 1 ELSE 0,
                         !.sql = <<>>,
                         !.unreleased = RawConnLeftOpen(acquired, se) ]
            IN  /\ pgUp' = (pgUp /\ se \notin ExecFaults)
                /\ IF se = NoExc /\ ~exists
                   THEN /\ pc' = [pc EXCEPT ![p] = "cdb_create"]
                        /\ loc' = [loc EXCEPT ![p].db_name = db_name]
                        /\ UNCHANGED << resp, leaked >>
                   ELSE /\ resp' = [resp EXCEPT ![p] = r]
                        /\ leaked' = leaked + r.unreleased
                        /\ UNCHANGED << pc, loc >>
    /\ UNCHANGED << redisUp, dbs, hasTable, rows, nextId, store >>

\* lines 115-120: the CREATE DATABASE statement and the answer
CreateDbCreate(p) ==
    /\ pc[p] = "cdb_create"
    /\ \E oe \in OpenConnOutcomes :
        LET db_name == loc[p].db_name
            quoted  == QuoteIdent(db_name)
            e == IF oe # NoExc THEN oe ELSE CreateDatabaseExc(quoted)
            r == [ pg_create_db(db_name, e, FALSE) EXCEPT
                     !.db_name = db_name,
                     !.conns = 1,
                     !.sql = << <<"CREATE DATABASE">> \o quoted >>,
                     !.unreleased = RawConnLeftOpen(TRUE, e) ]
        IN  /\ pgUp' = (pgUp /\ oe \notin ExecFaults)
            /\ dbs' = IF e = NoExc THEN dbs \cup { ParseDbIdent(quoted).ident } ELSE dbs
            /\ resp' = [resp EXCEPT ![p] = r]
            /\ leaked' = leaked + r.unreleased
            /\ pc' = [pc EXCEPT ![p] = "idle"]
            /\ loc' = [loc EXCEPT ![p].db_name = <<>>]
    /\ UNCHANGED << redisUp, hasTable, rows, nextId, store >>

(***************************************************************************)
(* DELETE /pg/drop-db                                                      *)
(***************************************************************************)
\* variant: only the administrative database is protected
ProtectedNamesAdminOnly == { <<"postgres">> }
ProtectedNames == { <<"openLLM">>, <<"postgres">> }

pg_drop_db(db_name, e) ==
    IF db_name \in ProtectedNames
    THEN HTTPException("pg_drop_db", 400, <<"Cannot drop protected database">>, NoExc)
    ELSE IF e # NoExc
    THEN HTTPException("pg_drop_db", 500, <<e.msg>>, e)
    ELSE [ Response("pg_drop_db") EXCEPT !.status = "dropped" ]

\* DROP DATABASE IF EXISTS <quoted>: the exception it raises
DropDatabaseExc(quoted) == IF ParseDbIdent(quoted).ok THEN NoExc ELSE SyntaxExc

PgDropDb(p, db_name) ==
    /\ pc[p] = "idle"
    /\ LET guarded == pg_drop_db(db_name, NoExc).code = 400
           ce == IF guarded THEN NoExc ELSE ConnectExc
       IN  \E oe \in (IF guarded THEN { NoExc }
                      ELSE IF ce # NoExc THEN { ce } ELSE OpenConnOutcomes) :
            LET acquired == ~guarded /\ ce = NoExc
                quoted   == QuoteIdent(db_name)
                sent     == acquired /\ oe = NoExc
                e == IF sent THEN DropDatabaseExc(quoted) ELSE oe
                r == [ pg_drop_db(db_name, e) EXCEPT
                         !.db_name = db_name,
                         !.conns = IF acquired THEN 1 ELSE 0,
                         !.sql = IF sent
                                 THEN << <<"DROP DATABASE IF EXISTS">> \o quoted >>
                                 ELSE <<>>,
                         !.unreleased = RawConnLeftOpen(acquired, e) ]
            IN  /\ pgUp' = (pgUp /\ oe \notin ExecFaults)
                /\ dbs' = IF sent /\ e = NoExc
                          THEN dbs \ { ParseDbIdent(quoted).ident }
                          ELSE dbs
                /\ resp' = [resp EXCEPT ![p] = r]
                /\ leaked' = leaked + r.unreleased
    /\ UNCHANGED << redisUp, hasTable, rows, nextId, store, pc, loc >>

\* the garbage collector finalizes an unreferenced pool connection, which
\* returns it to the pool: it may happen at any time, or never
Finalize ==
    /\ leaked > 0
    /\ leaked' = leaked - 1
    /\ UNCHANGED << pgUp, redisUp, dbs, hasTable, rows, nextId, store, pc, loc, resp >>

(***************************************************************************)
(* The Redis commands the handlers use                                     *)
(***************************************************************************)
\* variant: SET key value KEEPTTL on an existing entry
RedisSetKeepTtl(st, key, value, ex) ==
    [ st EXCEPT ![key] = [ live |-> TRUE, value |-> value,
                           ttl |-> IF st[key].live THEN st[key].ttl ELSE ex ] ]
\* SET key value EX seconds
RedisSet(st, key, value, ex) ==
    [ st EXCEPT ![key] = [ live |-> TRUE, value |-> value, ttl |-> ex ] ]
\* GET key
RedisGet(st, key) == IF st[key].live THEN st[key].value ELSE Nil
\* TTL key (every entry of this service is written with an expiry)
RedisTtl(st, key) == IF st[key].live THEN st[key].ttl ELSE TtlMissing

(***************************************************************************)
(* GET /redis/connect                                                      *)
(***************************************************************************)
redis_connect(e) ==
    IF e = NoExc
    THEN [ Response("redis_connect") EXCEPT !.status = "connected", !.ping = TRUE ]
    ELSE HTTPException("redis_connect", 500, <<"Redis connection failed: ", e.msg>>, e)

RedisExc == IF redisUp THEN NoExc ELSE RedisDownExc

RedisConnect(p) ==
    /\ pc[p] = "idle"
    /\ resp' = [resp EXCEPT ![p] = redis_connect(RedisExc)]
    /\ UNCHANGED << pgUp, redisUp, pgVars, store, pc, loc >>

(***************************************************************************)
(* POST /redis/write                                                       *)
(***************************************************************************)
redis_write(e, key, value) ==
    IF e = NoExc
    THEN [ Response("redis_write") EXCEPT
             !.status = "written", !.key = key, !.value = value, !.ttl = WriteTtl ]
    ELSE HTTPException("redis_write", 500, <<e.msg>>, e)

RedisWrite(p, key, value) ==
    /\ pc[p] = "idle"
    /\ resp' = [resp EXCEPT ![p] = redis_write(RedisExc, key, value)]
    /\ store' = IF RedisExc = NoExc THEN RedisSet(store, key, value, WriteTtl) ELSE store
    /\ UNCHANGED << pgUp, redisUp, pgVars, pc, loc >>

(***************************************************************************)
(* GET /redis/read: GET and TTL are two commands; other clients' commands  *)
(* and the passing of time fall between them                               *)
(***************************************************************************)
\* variant: a negative ttl is reported as 0
redis_read_clamped(e, key, value, ttl) ==
    IF e = NoExc
    THEN [ Response("redis_read") EXCEPT
             !.status = "ok", !.key = key, !.value = value,
             !.ttl = IF ttl < 0 THEN 0 ELSE ttl ]
    ELSE HTTPException("redis_read", 500, <<e.msg>>, e)
redis_read(e, key, value, ttl) ==
    IF e = NoExc
    THEN [ Response("redis_read") EXCEPT
             !.status = "ok", !.key = key, !.value = value, !.ttl = ttl ]
    ELSE HTTPException("redis_read", 500, <<e.msg>>, e)

\* line 184: value = redis_client.get(key)
RedisReadGet(p, key) ==
    /\ pc[p] = "idle"
    /\ IF RedisExc = NoExc
       THEN /\ pc' = [pc EXCEPT ![p] = "rr_ttl"]
            /\ loc' = [loc EXCEPT ![p].key = key, ![p].value = RedisGet(store, key)]
            /\ UNCHANGED resp
       ELSE /\ resp' = [resp EXCEPT ![p] = redis_read(RedisExc, key, Nil, 0)]
            /\ UNCHANGED << pc, loc >>
    /\ UNCHANGED << pgUp, redisUp, pgVars, store >>

\* lines 185-188: ttl = redis_client.ttl(key) and the answer
RedisReadTtl(p) ==
    /\ pc[p] = "rr_ttl"
    /\ resp' = [resp EXCEPT ![p] =
                  redis_read(RedisExc, loc[p].key, loc[p].value,
                             RedisTtl(store, loc[p].key))]
    /\ pc' = [pc EXCEPT ![p] = "idle"]
    /\ loc' = [loc EXCEPT ![p].key = "", ![p].value = Nil]
    /\ UNCHANGED << pgUp, redisUp, pgVars, store >>

\* d seconds pass: every entry loses d seconds, an entry with none left is gone
Expire(st, d) ==
    [ k \in DOMAIN st |->
        IF st[k].live /\ st[k].ttl > d
        THEN [ st[k] EXCEPT !.ttl = @ - d ]
        ELSE [ live |-> FALSE, value |-> Nil, ttl |-> 0 ] ]

Tick(d) ==
    /\ \E k \in DOMAIN store : store[k].live
    /\ store' = Expire(store, d)
    /\ UNCHANGED << pgUp, redisUp, pgVars, pc, loc, resp >>

(***************************************************************************)
(* GET /test-all: three sections, each in its own try / except Exception   *)
(***************************************************************************)
Sections == { "pg_connect", "pg_readwrite", "redis" }

\* what a section stores in results: {"status": "ok", ...} after its try
\* block, {"status": "error", "detail": str(e)} from its except clause
SectionResult(e) ==
    IF e = NoExc
    THEN [ status |-> "ok", detail |-> "" ]
    ELSE [ status |-> "error", detail |-> e.msg ]

\* variant: results = {key: value}
SetResultOnly(results, key, value) == [ k \in { key } |-> value ]
\* results[key] = value
SetResult(results, key, value) ==
    [ k \in DOMAIN results \cup { key } |-> IF k = key THEN value ELSE results[k] ]

\* lines 195-203
TestAllPgConnect(p) ==
    /\ pc[p] = "idle"
    /\ nextId + Cardinality({ q \in Procs : pc[q] = "ta_pgrw" }) <= MaxTestAllId
    /\ \E e \in StmtOutcomes :
        /\ loc' = [loc EXCEPT ![p].results = SetResult(<<>>, "pg_connect", SectionResult(e))]
        /\ pgUp' = (pgUp /\ e \notin ExecFaults)
    /\ pc' = [pc EXCEPT ![p] = "ta_pgrw"]
    /\ UNCHANGED << redisUp, pgVars, store, resp >>

\* lines 205-223: create the table, insert a row, commit, count the rows;
\* the connection may be lost before the commit (nothing is kept) or after
\* it (the row is kept, the section reports the error)
TestAllPgReadWrite(p) ==
    /\ pc[p] = "ta_pgrw"
    /\ \E e \in StmtOutcomes, committed \in BOOLEAN :
        LET t == CreateTableIfNotExists(Table)
            m == "test_all at t"
        IN  /\ committed \in (IF e = NoExc THEN { TRUE }
                              ELSE IF e \in ExecFaults THEN BOOLEAN ELSE { FALSE })
            /\ loc' = [loc EXCEPT ![p].results =
                         SetResult(@, "pg_readwrite", SectionResult(e))]
            /\ pgUp' = (pgUp /\ e \notin ExecFaults)
            /\ hasTable' = IF committed THEN t.exists ELSE hasTable
            /\ rows' = IF committed THEN Append(t.rows, InsertRow(m)) ELSE rows
            /\ nextId' = IF committed THEN nextId + 1 ELSE nextId
    /\ pc' = [pc EXCEPT ![p] = "ta_redis"]
    /\ UNCHANGED << redisUp, dbs, leaked, store, resp >>

\* lines 225-234: ping, set testall_key, read it back; return results
TestAllRedis(p) ==
    /\ pc[p] = "ta_redis"
    /\ LET e == RedisExc
           results == SetResult(loc[p].results, "redis", SectionResult(e))
       IN  /\ store' = IF e = NoExc
                       THEN RedisSet(store, "testall_key", "testall_value", TestAllTtl)
                       ELSE store
           /\ resp' = [resp EXCEPT ![p] =
                         [ Response("test_all") EXCEPT !.results = results ]]
    /\ pc' = [pc EXCEPT ![p] = "idle"]
    /\ loc' = [loc EXCEPT ![p].results = <<>>]
    /\ UNCHANGED << pgUp, redisUp, pgVars >>

(***************************************************************************)
(* The environment: the servers go down and come back                      *)
(***************************************************************************)
PgFail == pgUp /\ pgUp' = FALSE /\ UNCHANGED << redisUp, pgVars, store, pc, loc, resp >>
PgRecover == ~pgUp /\ pgUp' = TRUE /\ UNCHANGED << redisUp, pgVars, store, pc, loc, resp >>
RedisFail == redisUp /\ redisUp' = FALSE /\ UNCHANGED << pgUp, pgVars, store, pc, loc, resp >>
RedisRecover == ~redisUp /\ redisUp' = TRUE /\ UNCHANGED << pgUp, pgVars, store, pc, loc, resp >>

(***************************************************************************)
(* Initial state: freshly started process, a cluster holding the           *)
(* administrative and the operational database, an empty cache             *)
(***************************************************************************)
NoLocals == [ db_name |-> <<>>, key |-> "", value |-> Nil, results |-> <<>> ]
NoEntry == [ live |-> FALSE, value |-> Nil, ttl |-> 0 ]

Init ==
    /\ pgUp = TRUE
    /\ redisUp = TRUE
    /\ dbs = { <<"postgres">>, <<"openLLM">> }
    /\ hasTable = FALSE
    /\ rows = <<>>
    /\ nextId = 1
    /\ leaked = 0
    /\ store = [ k \in Keys \cup {"testall_key"} |-> NoEntry ]
    /\ pc = [ p \in Procs |-> "idle" ]
    /\ loc = [ p \in Procs |-> NoLocals ]
    /\ resp = [ p \in Procs |-> Response("none") ]

(***************************************************************************)
(* One client issuing the table requests one after the other               *)
(***************************************************************************)
NextTable ==
    \/ PgCreateTable("w1")
    \/ \E m \in Messages : PgInsert("w1", m)
    \/ PgRead("w1")
    \/ PgFail
    \/ PgRecover

SpecTable == Init /\ [][NextTable]_vars

(***************************************************************************)
(* One client issuing the database requests one after the other            *)
(***************************************************************************)
NextDb ==
    \/ \E n \in DbNames : CreateDbLookup("w1", n)
    \/ CreateDbCreate("w1")
    \/ \E n \in DbNames : PgDropDb("w1", n)
    \/ PgConnect("w1")
    \/ PgTables("w1")
    \/ Finalize
    \/ PgFail
    \/ PgRecover

SpecDb == Init /\ [][NextDb]_vars

(***************************************************************************)
(* The cache requests: one client alone, and a reading client next to      *)
(* clients that write                                                      *)
(***************************************************************************)
NextRedisSeq ==
    \/ \E k \in Keys, v \in Values : RedisWrite("w1", k, v)
    \/ \E k \in Keys : RedisReadGet("w1", k)
    \/ RedisReadTtl("w1")
    \/ RedisConnect("w1")
    \/ \E d \in Deltas : Tick(d)
    \/ RedisFail
    \/ RedisRecover

SpecRedisSeq == Init /\ [][NextRedisSeq]_vars

NextRedis ==
    \/ \E p \in { "w1", "w2" }, k \in Keys, v \in Values : RedisWrite(p, k, v)
    \/ \E k \in Keys : RedisReadGet("w1", k)
    \/ RedisReadTtl("w1")
    \/ \E d \in Deltas : Tick(d)
    \/ RedisFail
    \/ RedisRecover

SpecRedis == Init /\ [][NextRedis]_vars

(***************************************************************************)
(* The combined test, while the servers come and go                        *)
(***************************************************************************)
NextAll ==
    \/ TestAllPgConnect("w1")
    \/ TestAllPgReadWrite("w1")
    \/ TestAllRedis("w1")
    \/ PgFail
    \/ PgRecover
    \/ RedisFail
    \/ RedisRecover

SpecAll == Init /\ [][NextAll]_vars
\* a handler that has started keeps running on its worker thread
FairSpecAll ==
    SpecAll /\ WF_vars(TestAllPgReadWrite("w1")) /\ WF_vars(TestAllRedis("w1"))

(***************************************************************************)
(* Concurrent create-db requests: each worker sends one request            *)
(***************************************************************************)
NextRace ==
    \/ \E p \in Procs, n \in DbNames : resp[p].op = "none" /\ CreateDbLookup(p, n)
    \/ \E p \in Procs : CreateDbCreate(p)
    \/ Finalize
    \/ PgFail
    \/ PgRecover

SpecRace == Init /\ [][NextRace]_vars

(***************************************************************************)
(* Properties                                                              *)
(***************************************************************************)
Range(s) == { s[i] : i \in 1..Len(s) }

\* C1: a drop-db request naming "postgres" or "openLLM" is answered 400 and
\* does nothing: it takes no connection, sends no statement, and leaves the
\* set of databases and the pool as they were, however often it is sent.
C1_ProtectedDropRefused ==
    [][ \A p \in Procs, n \in { <<"postgres">>, <<"openLLM">> } :
          PgDropDb(p, n) =>
            /\ resp'[p].code = 400
            /\ resp'[p].conns = 0
            /\ resp'[p].sql = <<>>
            /\ resp'[p].unreleased = 0
            /\ dbs' = dbs
            /\ leaked' = leaked ]_vars

C1_Witness ==
    /\ resp["w1"].op = "pg_drop_db"
    /\ resp["w1"].db_name = <<"openLLM">>
    /\ resp["w1"].code = 400
    /\ <<"test_newdb">> \in dbs

\* C2: two create-db requests for the same name, sent one after the other
\* from a state without that database and with the server reachable: the
\* first is answered "created" and the database of that name then exists (so
\* the second finds it); the second, finding it, is answered
\* "already_exists" and changes nothing; neither is answered with an error.
C2_CreateTwice ==
    [][ \A p \in Procs :
          /\ (CreateDbCreate(p) /\ resp'[p].exc \notin EnvFaults) =>
                /\ resp'[p].code = 200
                /\ resp'[p].status = "created"
                /\ resp'[p].db_name \in dbs'
          /\ \A n \in DbNames :
                (CreateDbLookup(p, n) /\ DbExists(n) /\ resp'[p].exc \notin EnvFaults) =>
                    /\ resp'[p].code = 200
                    /\ resp'[p].status = "already_exists"
                    /\ dbs' = dbs ]_vars

\* C3: a successful read returns at most ReadLimit rows, the most recently
\* inserted ones, in strictly descending id order, with count equal to their
\* number; when it follows a successful insert of the same client, the
\* inserted id and message are among them.
C3_InsertThenRead ==
    [][ \A p \in Procs :
          (resp'[p].op = "pg_read" /\ resp'[p].code = 200 /\ PgRead(p)) =>
            LET r == resp'[p].rows
            IN  /\ Len(r) <= ReadLimit
                /\ resp'[p].count = Len(r)
                /\ \A i \in 1..Len(r) : \A j \in 1..Len(r) : i < j => r[i].id > r[j].id
                /\ Range(r) \subseteq Range(rows)
                /\ \A o \in Range(rows) \ Range(r) :
                      Len(r) = ReadLimit /\ \A x \in Range(r) : x.id > o.id
                /\ (resp[p].op = "pg_insert" /\ resp[p].code = 200) =>
                      [ id |-> resp[p].id, message |-> resp[p].message ] \in Range(r) ]_vars

C3_Witness ==
    /\ resp["w1"].op = "pg_read"
    /\ resp["w1"].code = 200
    /\ resp["w1"].count = ReadLimit
    /\ Len(rows) > ReadLimit
    /\ resp["w1"].rows[1] = rows[Len(rows)]
    /\ rows[1] \notin Range(resp["w1"].rows)

\* C4: a combined test that has started ends with a result holding exactly
\* the keys pg_connect, pg_readwrite and redis; each section reports "ok"
\* when its server is reachable while it runs and "error" otherwise,
\* whatever the sections before it reported.
C4_TestAllSections ==
    /\ \A p \in Procs :
         (pc[p] \in { "ta_pgrw", "ta_redis" }) ~>
            (pc[p] = "idle" /\ resp[p].op = "test_all"
                            /\ DOMAIN resp[p].results = Sections)
    /\ [][ \A p \in Procs :
             /\ TestAllPgConnect(p) =>
                  /\ DOMAIN loc'[p].results = { "pg_connect" }
                  /\ (loc'[p].results["pg_connect"].status = "ok") <=> (pgUp /\ pgUp')
                  /\ loc'[p].results["pg_connect"].status \in { "ok", "error" }
             /\ TestAllPgReadWrite(p) =>
                  /\ DOMAIN loc'[p].results = { "pg_connect", "pg_readwrite" }
                  /\ (loc'[p].results["pg_readwrite"].status = "ok") <=> (pgUp /\ pgUp')
                  /\ loc'[p].results["pg_readwrite"].status \in { "ok", "error" }
                  /\ loc'[p].results["pg_connect"] = loc[p].results["pg_connect"]
             /\ TestAllRedis(p) =>
                  /\ resp'[p].code = 200
                  /\ DOMAIN resp'[p].results = Sections
                  /\ (resp'[p].results["redis"].status = "ok") <=> redisUp
                  /\ resp'[p].results["redis"].status \in { "ok", "error" }
                  /\ \A k \in { "pg_connect", "pg_readwrite" } :
                        resp'[p].results[k] = loc[p].results[k] ]_vars

C4_Witness ==
    /\ resp["w1"].op = "test_all"
    /\ DOMAIN resp["w1"].results = Sections
    /\ resp["w1"].results["pg_connect"].status = "error"
    /\ resp["w1"].results["pg_readwrite"].status = "ok"
    /\ resp["w1"].results["redis"].status = "error"

\* C5: every error answer is a 500 whose body is {detail: ...} ending in the
\* message of the exception behind it, except the refusal to drop a
\* protected database, which is a 400.
C5_ErrorsCaught ==
    \A p \in Procs :
        resp[p].code # 200 =>
            \/ /\ resp[p].op = "pg_drop_db"
               /\ resp[p].code = 400
               /\ resp[p].db_name \in { <<"postgres">>, <<"openLLM">> }
            \/ /\ resp[p].code = 500
               /\ resp[p].body = "detail"
               /\ resp[p].detail # <<>>
               /\ resp[p].detail[Len(resp[p].detail)] = resp[p].exc.msg

\* C6: a successful write of (k, v) leaves k holding v with WriteTtl seconds
\* to live, whatever k held before; a read of k by the same client that
\* follows it and ends before the entry expires returns v and a ttl in
\* 1..WriteTtl.
C6_WriteThenRead ==
    [][ \A p \in Procs :
          /\ \A k \in Keys, v \in Values :
                (RedisWrite(p, k, v) /\ resp'[p].code = 200) =>
                    store'[k] = [ live |-> TRUE, value |-> v, ttl |-> WriteTtl ]
          /\ ( /\ RedisReadTtl(p)
               /\ resp[p].op = "redis_write"
               /\ resp[p].code = 200
               /\ resp[p].key = loc[p].key
               /\ store[loc[p].key].live
               /\ resp'[p].code = 200 ) =>
                    /\ resp'[p].value = resp[p].value
                    /\ resp'[p].ttl > 0
                    /\ resp'[p].ttl <= WriteTtl ]_vars

C6_Witness ==
    /\ resp["w1"].op = "redis_read"
    /\ resp["w1"].code = 200
    /\ resp["w1"].key = "k1"
    /\ resp["w1"].value = "v1"
    /\ resp["w1"].ttl = 1
    /\ store["k1"].live

\* C7: a create-table request sent when the table exists (as it does after
\* a first successful request) is not answered with an error of its own and
\* leaves the schema as it was: the one table test_connection, with the
\* rows it held.
C7_CreateTableIdempotent ==
    [][ \A p \in Procs :
          (hasTable /\ resp'[p].op = "pg_create_table" /\ PgCreateTable(p)) =>
            /\ resp'[p].code = 200 \/ resp'[p].exc \in EnvFaults
            /\ hasTable'
            /\ rows' = rows
            /\ TableNames' = <<"test_connection">>
            /\ TableNames' = TableNames ]_vars

C7_Witness ==
    /\ resp["w1"].op = "pg_create_table"
    /\ resp["w1"].code = 200
    /\ Len(rows) > 1
    /\ hasTable

\* C8 (as stated): every answer of redis_read given while the cache is
\* reachable has status "ok"; for a key without an entry it carries a null
\* value and the missing-key ttl; and no answer carries a non-null value
\* together with the missing-key ttl.
C8_ReadConsistent ==
    \A p \in Procs :
        (resp[p].op = "redis_read" /\ resp[p].code = 200) =>
            /\ resp[p].status = "ok"
            /\ ~(resp[p].value # Nil /\ resp[p].ttl = TtlMissing)

\* C8 (amended): a redis_read answered while the cache is reachable has
\* status "ok"; if the key holds no entry at the GET and none at the TTL it
\* carries null and the missing-key ttl; if it holds one at both it carries
\* a value and a positive ttl; a non-null value comes with the missing-key
\* ttl exactly when the entry seen by the GET is gone at the TTL.
C8_ReadConsistentUnlessExpired ==
    [][ \A p \in Procs :
          (RedisReadTtl(p) /\ redisUp) =>
            LET k == loc[p].key
                r == resp'[p]
            IN  /\ r.code = 200 /\ r.status = "ok" /\ r.key = k
                /\ (loc[p].value = Nil /\ ~store[k].live) =>
                      (r.value = Nil /\ r.ttl = TtlMissing)
                /\ (loc[p].value # Nil /\ store[k].live) =>
                      (r.value # Nil /\ r.ttl > 0 /\ r.ttl <= WriteTtl)
                /\ (r.value # Nil /\ r.ttl = TtlMissing) <=>
                      (loc[p].value # Nil /\ ~store[k].live) ]_vars

C8_Witness ==
    /\ resp["w1"].op = "redis_read"
    /\ resp["w1"].code = 200
    /\ resp["w1"].value = Nil
    /\ resp["w1"].ttl = TtlMissing
    /\ \A k \in Keys : ~store[k].live

\* C9: a request that has returned has no connection checked out, and with
\* no request running no connection is checked out of the pool.
C9_ConnectionsReleased ==
    /\ \A p \in Procs : pc[p] = "idle" => resp[p].unreleased = 0
    /\ (\A p \in Procs : pc[p] = "idle") => CheckedOut = 0

=============================================================================
